---- MODULE Spec2Model ----
(***************************************************************************)
(* larva::stealing_thread_pool (thread_manager/thread_pool/                *)
(* stealing_thread_pool.hh) with its two queue types                       *)
(* (threadsafe_container/queue.hh, stealing_queue.hh), the task wrapper    *)
(* and the joiner (cpp/thread_pool/f_wrapper.hh).                          *)
(*                                                                         *)
(* Threads: the thread that owns the pool object ("main": constructor,     *)
(* submit, get on the returned futures, destructor) and the worker         *)
(* threads 0 .. hardware_concurrency()-1.  Every queue operation holds the *)
(* queue's mutex for its whole body and nothing else, so it is one atomic  *)
(* step.  A task is a std::packaged_task wrapped in an f_wrapper; it is    *)
(* identified by the number i captured by its lambda.                      *)
(*                                                                         *)
(* Undefined behaviour of the C++ code is kept as a choice:                *)
(*  - a worker reads the vector _queues while the constructor still        *)
(*    appends to it (no synchronisation): the read sees the table as it    *)
(*    is, or a moved-from (null) slot of the reallocated buffer, or the    *)
(*    process crashes;                                                     *)
(*  - _queues is declared after _joiner, so it is destroyed before the     *)
(*    workers are joined: a worker that touches a local queue after that   *)
(*    finds it empty or the process crashes, a push into it is lost;       *)
(*  - f_wrapper::operator=(f_wrapper&&) has no return statement, and every *)
(*    try_pop / try_steal that finds an element assigns it to the caller's *)
(*    f_wrapper: the assignment completes (the reference it returns is     *)
(*    never used) or the process is aborted.                               *)
(***************************************************************************)
EXTENDS Integers, Sequences, FiniteSets

\* Bound on the value returned by std::thread::hardware_concurrency().
MaxThreads == 2
\* Bound on the number of tasks submitted during one run.
MaxTasks == 2

\* Bound on the number of items pushed into one queue that is used on its
\* own (the queue-level specification below).
MaxItems == 3

\* Bound on the number of tasks submitted to the local-queue thread_pool:
\* one from outside the pool and two from inside a running task are needed
\* before a worker's local queue holds two tasks.
MaxLocalTasks == 3

Workers == 0 .. (MaxThreads - 1)
TaskIds == 1 .. MaxTasks
\* the tasks of the local-queue thread_pool: the first comes from outside the
\* pool, the others may be submitted by running tasks
LQTaskIds == 1 .. MaxLocalTasks

\* thread_local _local_work_queue {nullptr}
NULL == -1
\* the thread that owns the pool (no worker: its _local_work_queue stays
\* nullptr), and the value of submitter[t] before task t exists
Main == MaxThreads
NoThread == MaxThreads + 1

\* the threads that call the pool's queue operations
Threads == Workers \cup {Main}
\* the mutexes: _queues[i]->_mutex for each worker i, and _work_queue._mutex
Global == MaxThreads
Mutexes == Workers \cup {Global}

\* two stealing_thread_pool instances alive at once
Pools == {0, 1}
\* the worker threads of the two pools: <<pool, index>>
PoolWorkers == Pools \X Workers
\* a thread that is a worker of neither pool
Outside == <<NULL, 0>>
PoolThreads == PoolWorkers \cup {Outside}
\* a thread_local _local_work_queue that is nullptr
NoQueue == <<NULL, NULL>>

VARIABLES
    hc,                \* std::thread::hardware_concurrency()
    mpc,               \* where the owning thread is in the pool's lifetime
    failing,           \* the constructor is unwinding after a failed spawn
    done,              \* _done
    work_queue,        \* _work_queue (threadsafe_queue<f_wrapper>)
    queues,            \* _queues[i]: contents of the i-th stealing_queue
    nqueues,           \* _queues.size()
    nthreads,          \* _worker_threads.size()
    freed,             \* _queues has been destroyed
    joined,            \* number of threads join_threads has joined
    wpc,               \* position of each worker thread
    scan,              \* loop variable i of pop_task_from_other_thread_queue
    cur,               \* the f_wrapper 'task' of run_pending_task (0: empty)
    local_work_queue,  \* thread_local _local_work_queue of each worker
    nsub,              \* number of tasks submitted so far
    submitter,         \* history: the thread that submitted the task
    placed,            \* history: where submit pushed the task
    via,               \* history: the operation that took the task
    fstate,            \* shared state of the task's std::future
    fvalue,            \* the value stored in the shared state
    execs,             \* history: invocations of the task's callable
    late,              \* history: tasks each worker took with _done set
    writes,            \* history: writes to the task's shared state
    gotUpTo,           \* the last handle on which get() has returned
    crashed,           \* the process has been aborted
    sq,                \* a stealing_queue used on its own: its _queue
    tq,                \* a threadsafe_queue used on its own: its _queue
    nsq,               \* number of pushes into sq so far
    ntq,               \* number of pushes into tq so far
    taken,             \* history: the items removed from tq, in order
    res,               \* each thread's output object (res / item)
    call,              \* the last queue operation that returned
    mutex,             \* the thread that holds each queue's _mutex
    opret,             \* each thread's position inside a queue operation
    guard,             \* the mutex each thread's lock_guard / unique_lock owns
    ppc,               \* each thread's position in threadsafe_queue::pop
    npop,              \* number of calls of pop so far
    waited,            \* history: the thread's last pop had to wait
    pq_work_queue,     \* two pools: _work_queue of each pool
    pq_queues,         \* two pools: _queues[i] of each pool
    tl_local_work_queue, \* two pools: each thread's static thread_local _local_work_queue
    tl_index,          \* two pools: each thread's static thread_local _index
    pq_pc,             \* two pools: position of each worker thread
    pq_cur,            \* two pools: the f_wrapper 'task' of each worker (0: empty)
    pq_nsub,           \* two pools: number of tasks submitted so far
    through,           \* history: the pool whose submit was called for the task
    ran_by             \* history: the pool whose worker invoked the task

vars == <<hc, mpc, failing, done, work_queue, queues, nqueues, nthreads,
          freed, joined, wpc, scan, cur, local_work_queue, nsub,
          submitter, placed, via, fstate, fvalue, execs, late,
          writes, gotUpTo, crashed, sq, tq, nsq, ntq, taken, res, call,
          mutex, opret, guard, ppc, npop, waited,
          pq_work_queue, pq_queues, tl_local_work_queue, tl_index, pq_pc,
          pq_cur, pq_nsub, through, ran_by>>

poolVars == <<hc, mpc, failing, done, nqueues, nthreads, freed, joined>>
qVars == <<work_queue, queues>>
wVars == <<wpc, scan, cur, local_work_queue>>
taskVars == <<nsub, submitter, placed>>
histVars == <<via, execs, late>>
futVars == <<fstate, fvalue, writes>>
unitVars == <<sq, tq, nsq, ntq, taken, res, call, ppc, npop, waited>>
lockVars == <<mutex, opret, guard>>
instVars == <<pq_work_queue, pq_queues, tl_local_work_queue, tl_index, pq_pc,
              pq_cur, pq_nsub, through, ran_by>>

Min(a, b) == IF a < b THEN a ELSE b

----------------------------------------------------------------------------
\* The containers

\* a push at the other end of the deque: _queue.push_back
push_front_at_back(q, t) == Append(q, t)

\* stealing_queue::push: _queue.push_front
push_front(q, t) == <<t>> \o q

\* the element moved out is the one at the other end: _queue.back()
front_is_back(q) == q[Len(q)]

\* stealing_queue::try_pop / threadsafe_queue::try_pop: the element moved out
front(q) == Head(q)

\* a try_pop that moves the front element out and forgets to remove it
pop_front_keeps(q) == q

\* stealing_queue::try_pop: _queue.pop_front(); threadsafe_queue: _queue.pop()
pop_front(q) == Tail(q)

\* a try_steal that moves out the element at the front: _queue.front()
back_is_front(q) == Head(q)

\* stealing_queue::try_steal: the element moved out
back(q) == q[Len(q)]

\* a try_steal that moves the back element out and forgets to remove it
pop_back_keeps(q) == q

\* stealing_queue::try_steal: _queue.pop_back()
pop_back(q) == SubSeq(q, 1, Len(q) - 1)

\* a push that drops the item
push_drops(q, t) == q

\* a push that inserts at the front of the std::queue
push_lifo(q, t) == <<t>> \o q

\* threadsafe_queue::push: _queue.push (std::queue pushes at the back)
push(q, t) == Append(q, t)

\* a scan that does not advance: every probe goes to the next thread
index_of_other_next(index, i, size) == (index + 1) % size

\* pop_task_from_other_thread_queue: index_of_other
index_of_other(index, i, size) == (index + i + 1) % size

\* the lambda of the example program: return i + 1
TaskResult(i) == i + 1

\* what a callable may do when it is invoked: return a value, or throw
Outcomes == {"value", "exception"}

Range(q) == {q[k] : k \in 1 .. Len(q)}

----------------------------------------------------------------------------
\* the state when the constructor is entered; T is the set of task handles
InitOver(T) ==
    /\ hc \in 0 .. MaxThreads
    /\ mpc = "ctor"
    /\ failing = FALSE
    /\ done = FALSE
    /\ work_queue = <<>>
    /\ queues = [i \in Workers |-> <<>>]
    /\ nqueues = 0
    /\ nthreads = 0
    /\ freed = FALSE
    /\ joined = 0
    /\ wpc = [w \in Workers |-> "unstarted"]
    /\ scan = [w \in Workers |-> 0]
    /\ cur = [w \in Workers |-> 0]
    /\ local_work_queue = [w \in Workers |-> NULL]
    /\ nsub = 0
    /\ submitter = [t \in T |-> NoThread]
    /\ placed = [t \in T |-> "none"]
    /\ via = [t \in T |-> "none"]
    /\ fstate = [t \in T |-> "none"]
    /\ fvalue = [t \in T |-> 0]
    /\ execs = [t \in T |-> 0]
    /\ late = [w \in Workers |-> 0]
    /\ writes = [t \in T |-> 0]
    /\ gotUpTo = 0
    /\ crashed = FALSE
    /\ sq = <<>>
    /\ tq = <<>>
    /\ nsq = 0
    /\ ntq = 0
    /\ taken = <<>>
    /\ res = [th \in Workers |-> 0]
    /\ call = [th |-> NoThread, op |-> "none", ret |-> "none"]
    /\ mutex = [m \in Mutexes |-> NoThread]
    /\ opret = [th \in Threads |-> "none"]
    /\ guard = [th \in Threads |-> NULL]
    /\ ppc = [th \in Workers |-> "idle"]
    /\ npop = 0
    /\ waited = [th \in Workers |-> FALSE]

\* a process that holds one pool only: the second instance does not exist
OnePool ==
    /\ pq_work_queue = <<>>
    /\ pq_queues = <<>>
    /\ tl_local_work_queue = <<>>
    /\ tl_index = <<>>
    /\ pq_pc = <<>>
    /\ pq_cur = <<>>
    /\ pq_nsub = 0
    /\ through = <<>>
    /\ ran_by = <<>>

\* a process that holds two pools, both constructed, no worker scheduled yet
TwoPools ==
    /\ pq_work_queue = [p \in Pools |-> <<>>]
    /\ pq_queues = [p \in Pools |-> [i \in Workers |-> <<>>]]
    /\ tl_local_work_queue = [th \in PoolThreads |-> NoQueue]
    /\ tl_index = [th \in PoolThreads |-> 0]
    /\ pq_pc = [th \in PoolWorkers |-> "start"]
    /\ pq_cur = [th \in PoolWorkers |-> 0]
    /\ pq_nsub = 0
    /\ through = [t \in TaskIds |-> NULL]
    /\ ran_by = [t \in TaskIds |-> NULL]

Init == InitOver(TaskIds) /\ OnePool

\* The process is aborted (std::terminate, a fault): no thread moves again.
Crash ==
    /\ crashed' = TRUE
    /\ UNCHANGED <<poolVars, qVars, wVars, taskVars, histVars, futVars,
                   gotUpTo, unitVars, instVars, lockVars>>

\* The constructor has not yet appended every local queue to _queues.
Appending == mpc = "ctor" /\ nqueues < hc

----------------------------------------------------------------------------
\* The constructor

\* _queues.push_back(std::make_unique<stealing_queue>())
CtorPushQueue ==
    /\ ~crashed /\ mpc = "ctor"
    /\ nqueues = nthreads /\ nthreads < hc
    /\ nqueues' = nqueues + 1
    /\ UNCHANGED <<hc, mpc, failing, done, nthreads, freed, joined, qVars,
                   wVars, taskVars, histVars, futVars, gotUpTo, crashed, unitVars, instVars, lockVars>>

\* _worker_threads.push_back(std::thread{&worker_thread, this, i})
CtorSpawn ==
    /\ ~crashed /\ mpc = "ctor"
    /\ nqueues = nthreads + 1
    /\ nthreads' = nthreads + 1
    /\ wpc' = [wpc EXCEPT ![nthreads] = "start"]
    /\ UNCHANGED <<hc, mpc, failing, done, nqueues, freed, joined, qVars,
                   scan, cur, local_work_queue, taskVars, histVars,
                   futVars, gotUpTo, crashed, unitVars, instVars, lockVars>>

\* std::thread's constructor throws: catch (...) { _done = true; throw; }
CtorSpawnFails ==
    /\ ~crashed /\ mpc = "ctor"
    /\ nqueues = nthreads + 1
    /\ done' = TRUE
    /\ failing' = TRUE
    /\ mpc' = "destroy_queues"
    /\ UNCHANGED <<hc, nqueues, nthreads, freed, joined, qVars, wVars,
                   taskVars, histVars, futVars, gotUpTo, crashed, unitVars, instVars, lockVars>>

\* the loop ends, the constructor returns
CtorReturn ==
    /\ ~crashed /\ mpc = "ctor"
    /\ nthreads = hc
    /\ mpc' = "alive"
    /\ UNCHANGED <<hc, failing, done, nqueues, nthreads, freed, joined,
                   qVars, wVars, taskVars, histVars, futVars, gotUpTo,
                   crashed, unitVars, instVars, lockVars>>

----------------------------------------------------------------------------
\* submit

\* a submit that hands the task over only when some worker is not busy
submit_when_idle(who, lq) ==
    LET t == nsub + 1 IN
    /\ \E w \in Workers : wpc[w] \in {"loop", "local", "global", "steal"}
    /\ nsub < MaxTasks
    /\ nsub' = t
    /\ submitter' = [submitter EXCEPT ![t] = who]
    /\ fstate' = [fstate EXCEPT ![t] = "pending"]
    /\ work_queue' = Append(work_queue, t)
    /\ placed' = [placed EXCEPT ![t] = "global"]
    /\ UNCHANGED <<queues, fvalue, writes>>

\* submit(f) on thread who, whose _local_work_queue is lq.
\* The push goes to *lq when lq is set, to _work_queue otherwise.  A push
\* into a local queue that has been destroyed is lost.
submit(who, lq) ==
    LET t == nsub + 1 IN
    /\ nsub < MaxTasks
    /\ nsub' = t
    /\ submitter' = [submitter EXCEPT ![t] = who]
    /\ fstate' = [fstate EXCEPT ![t] = "pending"]
    /\ IF lq # NULL
         THEN IF freed
                THEN /\ placed' = [placed EXCEPT ![t] = "lost"]
                     /\ UNCHANGED qVars
                ELSE /\ queues' = [queues EXCEPT ![lq] = push_front(@, t)]
                     /\ placed' = [placed EXCEPT ![t] = "local"]
                     /\ UNCHANGED work_queue
         ELSE /\ work_queue' = push(work_queue, t)
              /\ placed' = [placed EXCEPT ![t] = "global"]
              /\ UNCHANGED queues
    /\ UNCHANGED <<fvalue, writes>>

\* pool.submit(...) called by the thread that owns the pool
MainSubmit ==
    /\ ~crashed /\ mpc = "alive"
    /\ submit(Main, NULL)
    /\ UNCHANGED <<poolVars, wVars, histVars, gotUpTo, crashed, unitVars, instVars, lockVars>>

\* the next handle the owning thread calls get() on
NextHandle ==
    LET S == {t \in TaskIds : t > gotUpTo /\ submitter[t] = Main}
    IN  IF S = {} THEN 0 ELSE CHOOSE t \in S : \A u \in S : t <= u

\* ret.get() returns: the shared state is ready
Get ==
    /\ ~crashed /\ mpc \in {"alive", "destroyed"}
    /\ NextHandle # 0
    /\ fstate[NextHandle] \in {"value", "exception", "broken"}
    /\ gotUpTo' = NextHandle
    /\ UNCHANGED <<poolVars, qVars, wVars, taskVars, histVars, futVars,
                   crashed, unitVars, instVars, lockVars>>

----------------------------------------------------------------------------
\* The worker threads

\* a worker that takes the queue of the next index as its own
WStart_next_queue(w) ==
    /\ ~crashed /\ wpc[w] = "start"
    /\ local_work_queue' =
          [local_work_queue EXCEPT ![w] = (w + 1) % nqueues]
    /\ wpc' = [wpc EXCEPT ![w] = "loop"]
    /\ UNCHANGED <<poolVars, qVars, scan, cur, taskVars, histVars, futVars,
                   gotUpTo, crashed, unitVars, instVars, lockVars>>

\* worker_thread(index): _index = index;
\*                       _local_work_queue = _queues[_index].get()
\* The element is read from the vector without synchronisation.
WStart(w) ==
    /\ ~crashed /\ wpc[w] = "start"
    /\ \/ /\ local_work_queue' = [local_work_queue EXCEPT ![w] = w]
          /\ wpc' = [wpc EXCEPT ![w] = "loop"]
          /\ UNCHANGED <<poolVars, qVars, scan, cur, taskVars,
                         histVars, futVars, gotUpTo, crashed, unitVars, instVars, lockVars>>
       \/ /\ Appending
          /\ wpc' = [wpc EXCEPT ![w] = "loop"]
          /\ UNCHANGED <<poolVars, qVars, scan, cur, local_work_queue, taskVars, histVars, futVars,
                         gotUpTo, crashed, unitVars, instVars, lockVars>>
       \/ /\ Appending
          /\ Crash
       \/ /\ freed
          /\ Crash

\* run_pending_task begins with the global queue
WCheck_global_first(w) ==
    /\ ~crashed /\ wpc[w] = "loop"
    /\ wpc' = [wpc EXCEPT ![w] = IF done THEN "exited" ELSE "global"]
    /\ UNCHANGED <<poolVars, qVars, scan, cur, local_work_queue,
                   taskVars, histVars, futVars, gotUpTo, crashed, unitVars, instVars, lockVars>>

\* run_pending_task begins with the steal scan
WCheck_steals_first(w) ==
    /\ ~crashed /\ wpc[w] = "loop"
    /\ wpc' = [wpc EXCEPT ![w] = IF done THEN "exited" ELSE "steal"]
    /\ UNCHANGED <<poolVars, qVars, scan, cur, local_work_queue,
                   taskVars, histVars, futVars, gotUpTo, crashed, unitVars, instVars, lockVars>>

\* a loop that never looks at _done
WCheck_ignores_done(w) ==
    /\ ~crashed /\ wpc[w] = "loop"
    /\ wpc' = [wpc EXCEPT ![w] = "local"]
    /\ UNCHANGED <<poolVars, qVars, scan, cur, local_work_queue,
                   taskVars, histVars, futVars, gotUpTo, crashed, unitVars, instVars, lockVars>>

\* a worker that clears _done when it has seen it set
WCheck_clears_done(w) ==
    /\ ~crashed /\ wpc[w] = "loop"
    /\ wpc' = [wpc EXCEPT ![w] = IF done THEN "exited" ELSE "local"]
    /\ done' = FALSE
    /\ UNCHANGED <<hc, mpc, failing, nqueues, nthreads, freed, joined,
                   qVars, scan, cur, local_work_queue, taskVars, histVars,
                   futVars, gotUpTo, crashed, unitVars, instVars, lockVars>>

\* while (!_done)
WCheck(w) ==
    /\ ~crashed /\ wpc[w] = "loop"
    /\ wpc' = [wpc EXCEPT ![w] = IF done THEN "exited" ELSE "local"]
    /\ UNCHANGED <<poolVars, qVars, scan, cur, local_work_queue,
                   taskVars, histVars, futVars, gotUpTo, crashed, unitVars, instVars, lockVars>>

\* a try_pop / try_steal returned true: 'task' holds t, task() is called
Take(w, t, how) ==
    /\ cur' = [cur EXCEPT ![w] = t]
    /\ wpc' = [wpc EXCEPT ![w] = "running"]
    /\ via' = [via EXCEPT ![t] = how]
    /\ execs' = [execs EXCEPT ![t] = Min(@ + 1, 2)]
    /\ late' = [late EXCEPT ![w] = IF done THEN Min(@ + 1, 2) ELSE @]
    /\ scan' = [scan EXCEPT ![w] = 0]

\* pop_task_from_local_queue:
\*   _local_work_queue && _local_work_queue->try_pop(task)
\* try_pop assigns the element with f_wrapper::operator=, which flows off
\* its end without a return: the call completes or the process aborts.
pop_task_from_local_queue(w) ==
    LET lq == local_work_queue[w] IN
    /\ ~crashed /\ wpc[w] = "local"
    /\ \/ /\ IF lq = NULL THEN TRUE ELSE ~freed /\ queues[lq] = <<>>
          /\ wpc' = [wpc EXCEPT ![w] = "global"]
          /\ UNCHANGED <<poolVars, qVars, scan, cur, local_work_queue, taskVars, histVars, futVars,
                         gotUpTo, crashed, unitVars, instVars, lockVars>>
       \/ /\ lq # NULL /\ ~freed /\ queues[lq] # <<>>
          /\ Take(w, front(queues[lq]), "local")
          /\ queues' = [queues EXCEPT ![lq] = pop_front(@)]
          /\ UNCHANGED <<poolVars, work_queue, local_work_queue,
                         taskVars, futVars, gotUpTo, crashed, unitVars, instVars, lockVars>>
       \/ /\ lq # NULL /\ freed
          /\ wpc' = [wpc EXCEPT ![w] = "global"]
          /\ UNCHANGED <<poolVars, qVars, scan, cur, local_work_queue, taskVars, histVars, futVars,
                         gotUpTo, crashed, unitVars, instVars, lockVars>>
       \/ /\ lq # NULL /\ freed
          /\ Crash
       \/ /\ lq # NULL /\ ~freed /\ queues[lq] # <<>>
          /\ Crash

\* pop_task_from_pool_queue: _work_queue.try_pop(task)
pop_task_from_pool_queue(w) ==
    /\ ~crashed /\ wpc[w] = "global"
    /\ \/ /\ work_queue = <<>>
          /\ wpc' = [wpc EXCEPT ![w] = "steal"]
          /\ UNCHANGED <<poolVars, qVars, scan, cur, local_work_queue, taskVars, histVars, futVars,
                         gotUpTo, crashed, unitVars, instVars, lockVars>>
       \/ /\ work_queue # <<>>
          /\ Take(w, front(work_queue), "global")
          /\ work_queue' = pop_front(work_queue)
          /\ UNCHANGED <<poolVars, queues, local_work_queue,
                         taskVars, futVars, gotUpTo, crashed, unitVars, instVars, lockVars>>
       \/ /\ work_queue # <<>>
          /\ Crash

\* a run_pending_task that calls task() also when the last probe failed
ProbeFailed_calls(w) ==
    IF scan[w] + 1 < nqueues
      THEN /\ scan' = [scan EXCEPT ![w] = @ + 1]
           /\ UNCHANGED wpc
      ELSE /\ scan' = [scan EXCEPT ![w] = 0]
           /\ wpc' = [wpc EXCEPT ![w] = "running"]

\* a probe of pop_task_from_other_thread_queue found nothing: ++i, and
\* when i reaches _queues.size() the scan returns false and the worker
\* yields
ProbeFailed(w) ==
    IF scan[w] + 1 < nqueues
      THEN /\ scan' = [scan EXCEPT ![w] = @ + 1]
           /\ UNCHANGED wpc
      ELSE /\ scan' = [scan EXCEPT ![w] = 0]
           /\ wpc' = [wpc EXCEPT ![w] = "loop"]

\* pop_task_from_other_thread_queue, one iteration of its loop:
\*   _queues[(_index + i + 1) % _queues.size()]->try_steal(task)
\* The vector is read without synchronisation.
pop_task_from_other_thread_queue(w) ==
    LET other == index_of_other(w, scan[w], nqueues) IN
    /\ ~crashed /\ wpc[w] = "steal"
    /\ \/ /\ ~freed /\ queues[other] = <<>>
          /\ ProbeFailed(w)
          /\ UNCHANGED <<poolVars, qVars, cur, local_work_queue,
                         taskVars, histVars, futVars, gotUpTo, crashed, unitVars, instVars, lockVars>>
       \/ /\ ~freed /\ queues[other] # <<>>
          /\ Take(w, back(queues[other]), "steal")
          /\ queues' = [queues EXCEPT ![other] = pop_back(@)]
          /\ UNCHANGED <<poolVars, work_queue, local_work_queue,
                         taskVars, futVars, gotUpTo, crashed, unitVars, instVars, lockVars>>
       \/ /\ freed
          /\ ProbeFailed(w)
          /\ UNCHANGED <<poolVars, qVars, cur, local_work_queue,
                         taskVars, histVars, futVars, gotUpTo, crashed, unitVars, instVars, lockVars>>
       \/ /\ freed
          /\ Crash
       \/ /\ Appending
          /\ Crash
       \/ /\ ~freed /\ queues[other] # <<>>
          /\ Crash

\* the running task calls pool.submit itself
TaskSubmit(w) ==
    /\ ~crashed /\ wpc[w] = "running"
    /\ \/ /\ submit(w, local_work_queue[w])
          /\ UNCHANGED <<poolVars, wpc, scan, cur, local_work_queue,
                         histVars, gotUpTo, crashed, unitVars, instVars, lockVars>>
       \/ /\ nsub < MaxTasks /\ local_work_queue[w] # NULL /\ freed
          /\ Crash

\* the result is stored in the shared state created last, not in the one
\* paired with the task
TaskReturns_unpaired(w) ==
    LET t == cur[w] IN
    /\ ~crashed /\ wpc[w] = "running"
    /\ \E o \in Outcomes :
          /\ fstate' = [fstate EXCEPT ![nsub] = o]
          /\ fvalue' = [fvalue EXCEPT ![nsub] =
                           IF o = "value" THEN t + 1 ELSE @]
    /\ writes' = [writes EXCEPT ![nsub] = Min(@ + 1, 2)]
    /\ wpc' = [wpc EXCEPT ![w] = "loop"]
    /\ cur' = [cur EXCEPT ![w] = 0]
    /\ UNCHANGED <<poolVars, qVars, scan, local_work_queue, taskVars,
                   histVars, gotUpTo, crashed, unitVars, instVars, lockVars>>

\* the exception is stored, and the worker leaves its loop
TaskReturns_leaves(w) ==
    LET t == cur[w] IN
    /\ ~crashed /\ wpc[w] = "running"
    /\ \E o \in Outcomes :
          /\ fstate' = [fstate EXCEPT ![t] = o]
          /\ fvalue' = [fvalue EXCEPT ![t] =
                           IF o = "value" THEN t + 1 ELSE @]
          /\ wpc' = [wpc EXCEPT ![w] =
                        IF o = "value" THEN "loop" ELSE "exited"]
    /\ writes' = [writes EXCEPT ![t] = Min(@ + 1, 2)]
    /\ cur' = [cur EXCEPT ![w] = 0]
    /\ UNCHANGED <<poolVars, qVars, scan, local_work_queue, taskVars,
                   histVars, gotUpTo, crashed, unitVars, instVars, lockVars>>

\* task() returns: std::packaged_task::operator() has run the callable and
\* stored its value, or the exception it threw, in the shared state
TaskReturns(w) ==
    LET t == cur[w] IN
    /\ ~crashed /\ wpc[w] = "running"
    /\ \E o \in Outcomes :
          /\ fstate' = [fstate EXCEPT ![t] = o]
          /\ fvalue' = [fvalue EXCEPT ![t] =
                           IF o = "value" THEN TaskResult(t) ELSE @]
    /\ writes' = [writes EXCEPT ![t] = Min(@ + 1, 2)]
    /\ wpc' = [wpc EXCEPT ![w] = "loop"]
    /\ cur' = [cur EXCEPT ![w] = 0]
    /\ UNCHANGED <<poolVars, qVars, scan, local_work_queue, taskVars,
                   histVars, gotUpTo, crashed, unitVars, instVars, lockVars>>

----------------------------------------------------------------------------
\* The destructor, and the unwinding of a constructor that threw

\* ~packaged_task of tasks that never ran: broken_promise in the shared state
Abandon(S) ==
    /\ fstate' = [t \in DOMAIN fstate |->
                     IF t \in S THEN "broken" ELSE fstate[t]]
    /\ writes' = [t \in DOMAIN writes |->
                     IF t \in S THEN Min(writes[t] + 1, 2) ELSE writes[t]]
    /\ UNCHANGED fvalue

\* ~stealing_thread_pool(): _done = true
DtorBody ==
    /\ ~crashed /\ mpc = "alive"
    /\ done' = TRUE
    /\ mpc' = "destroy_queues"
    /\ UNCHANGED <<hc, failing, nqueues, nthreads, freed, joined, qVars,
                   wVars, taskVars, histVars, futVars, gotUpTo, crashed, unitVars, instVars, lockVars>>

\* members are destroyed in reverse order of declaration: _queues first
DestroyQueues ==
    /\ ~crashed /\ mpc = "destroy_queues"
    /\ freed' = TRUE
    /\ Abandon(UNION {Range(queues[i]) : i \in Workers})
    /\ queues' = [i \in Workers |-> <<>>]
    /\ mpc' = "join"
    /\ UNCHANGED <<hc, failing, done, nqueues, nthreads, joined, work_queue,
                   wVars, taskVars, histVars, gotUpTo, crashed, unitVars, instVars, lockVars>>

\* a joiner that does not wait for the thread
JoinReady_nowait(i) == TRUE

\* ~join_threads(): if (thread.joinable()) thread.join(), thread by thread
JoinReady(i) == wpc[i] = "exited"

Join ==
    /\ ~crashed /\ mpc = "join"
    /\ joined < nthreads
    /\ JoinReady(joined)
    /\ joined' = joined + 1
    /\ UNCHANGED <<hc, mpc, failing, done, nqueues, nthreads, freed, qVars,
                   wVars, taskVars, histVars, futVars, gotUpTo, crashed, unitVars, instVars, lockVars>>

\* then _worker_threads and _work_queue are destroyed; the destructor
\* returns, or the constructor's exception reaches the caller
DestroyRest ==
    /\ ~crashed /\ mpc = "join"
    /\ joined = nthreads
    /\ Abandon(Range(work_queue))
    /\ work_queue' = <<>>
    /\ mpc' = IF failing THEN "ctor_failed" ELSE "destroyed"
    /\ UNCHANGED <<hc, failing, done, nqueues, nthreads, freed, joined,
                   queues, wVars, taskVars, histVars, gotUpTo, crashed, unitVars, instVars, lockVars>>

----------------------------------------------------------------------------
\* one iteration step of worker_thread / run_pending_task
WorkerLoop(w) ==
    \/ WStart(w)
    \/ WCheck(w)
    \/ pop_task_from_local_queue(w)
    \/ pop_task_from_pool_queue(w)
    \/ pop_task_from_other_thread_queue(w)

WorkerStep(w) ==
    \/ WorkerLoop(w)
    \/ TaskSubmit(w)
    \/ TaskReturns(w)

\* the pool's whole life; the futures returned by submit are discarded
Next ==
    \/ CtorPushQueue
    \/ CtorSpawn
    \/ CtorSpawnFails
    \/ CtorReturn
    \/ MainSubmit
    \/ DtorBody
    \/ DestroyQueues
    \/ Join
    \/ DestroyRest
    \/ \E w \in Workers : WorkerStep(w)

Spec == Init /\ [][Next]_vars

\* the same, with the owning thread calling get() on the futures
NextGet == Next \/ Get

SpecGet == Init /\ [][NextGet]_vars

\* Scheduling: every thread that can take a step eventually takes one, and
\* every task that has been invoked returns.
Fairness ==
    /\ \A w \in Workers : WF_vars(WorkerLoop(w)) /\ WF_vars(TaskReturns(w))
    /\ WF_vars(DestroyQueues \/ Join \/ DestroyRest)

FairSpec == Spec /\ Fairness

\* A pool with at least one worker that is constructed and never destroyed
LiveInit == Init /\ hc >= 1

LiveNext ==
    \/ CtorPushQueue
    \/ CtorSpawn
    \/ CtorReturn
    \/ MainSubmit
    \/ \E w \in Workers : WorkerStep(w)

LiveSpec ==
    /\ LiveInit /\ [][LiveNext]_vars
    /\ \A w \in Workers : WF_vars(WorkerLoop(w)) /\ WF_vars(TaskReturns(w))

\* A pool with at least two workers that is never destroyed, in which the
\* tasks run by every worker but worker 0 return; a task run by worker 0
\* may run for ever.
StealInit == LiveInit /\ hc >= 2

StealFairSpec ==
    /\ StealInit /\ [][LiveNext]_vars
    /\ \A w \in Workers : WF_vars(WorkerLoop(w))
    /\ \A w \in Workers \ {0} : WF_vars(TaskReturns(w))

----------------------------------------------------------------------------
\* larva::thread_pool (thread_pool/thread_pool.hh): one shared queue, no
\* local queues, no joiner.  It uses done, work_queue, nthreads, the
\* workers and the tasks of the state above.

\* _worker_threads.push_back(std::thread{&thread_pool::worker_thread, this})
TP_CtorSpawn ==
    /\ ~crashed /\ mpc = "ctor"
    /\ nthreads < hc
    /\ nthreads' = nthreads + 1
    /\ wpc' = [wpc EXCEPT ![nthreads] = "loop"]
    /\ UNCHANGED <<hc, mpc, failing, done, nqueues, freed, joined, qVars,
                   scan, cur, local_work_queue, taskVars, histVars,
                   futVars, gotUpTo, crashed, unitVars, instVars, lockVars>>

\* std::thread's constructor throws: catch (...) { _done = true; throw; }
TP_CtorSpawnFails ==
    /\ ~crashed /\ mpc = "ctor"
    /\ nthreads < hc
    /\ done' = TRUE
    /\ failing' = TRUE
    /\ mpc' = "destroy_threads"
    /\ UNCHANGED <<hc, nqueues, nthreads, freed, joined, qVars, wVars,
                   taskVars, histVars, futVars, gotUpTo, crashed, unitVars, instVars, lockVars>>

\* thread_pool::submit: _work_queue.push(std::move(task))
TP_submit(who) ==
    LET t == nsub + 1 IN
    /\ nsub < MaxTasks
    /\ nsub' = t
    /\ submitter' = [submitter EXCEPT ![t] = who]
    /\ fstate' = [fstate EXCEPT ![t] = "pending"]
    /\ work_queue' = push(work_queue, t)
    /\ placed' = [placed EXCEPT ![t] = "global"]
    /\ UNCHANGED <<queues, fvalue, writes>>

TP_MainSubmit ==
    /\ ~crashed /\ mpc = "alive"
    /\ TP_submit(Main)
    /\ UNCHANGED <<poolVars, wVars, histVars, gotUpTo, crashed, unitVars, instVars, lockVars>>

TP_TaskSubmit(w) ==
    /\ ~crashed /\ wpc[w] = "running"
    /\ TP_submit(w)
    /\ UNCHANGED <<poolVars, wVars, histVars, gotUpTo, crashed, unitVars, instVars, lockVars>>

\* thread_pool::worker_thread: while (!_done)
TP_WCheck(w) ==
    /\ ~crashed /\ wpc[w] = "loop"
    /\ wpc' = [wpc EXCEPT ![w] = IF done THEN "exited" ELSE "global"]
    /\ UNCHANGED <<poolVars, qVars, scan, cur, local_work_queue,
                   taskVars, histVars, futVars, gotUpTo, crashed, unitVars, instVars, lockVars>>

\* if (_work_queue.try_pop(task)) task(); else std::this_thread::yield();
TP_try_pop(w) ==
    /\ ~crashed /\ wpc[w] = "global"
    /\ \/ /\ work_queue = <<>>
          /\ wpc' = [wpc EXCEPT ![w] = "loop"]
          /\ UNCHANGED <<poolVars, qVars, scan, cur, local_work_queue,
                         taskVars, histVars, futVars, gotUpTo, crashed, unitVars, instVars, lockVars>>
       \/ /\ work_queue # <<>>
          /\ Take(w, front(work_queue), "global")
          /\ work_queue' = pop_front(work_queue)
          /\ UNCHANGED <<poolVars, queues, local_work_queue, taskVars,
                         futVars, gotUpTo, crashed, unitVars, instVars, lockVars>>
       \/ /\ work_queue # <<>>
          /\ Crash

\* ~thread_pool(): _done = true
TP_DtorBody ==
    /\ ~crashed /\ mpc = "alive"
    /\ done' = TRUE
    /\ mpc' = "destroy_threads"
    /\ UNCHANGED <<hc, failing, nqueues, nthreads, freed, joined, qVars,
                   wVars, taskVars, histVars, futVars, gotUpTo, crashed, unitVars, instVars, lockVars>>

\* then _worker_threads is destroyed: ~thread() of a thread that was never
\* joined calls std::terminate.  With no thread, _work_queue is destroyed
\* next and the destructor returns (or the exception reaches the caller).
TP_DestroyThreads ==
    /\ ~crashed /\ mpc = "destroy_threads"
    /\ IF nthreads > 0
         THEN Crash
         ELSE /\ Abandon(Range(work_queue))
              /\ work_queue' = <<>>
              /\ mpc' = IF failing THEN "ctor_failed" ELSE "destroyed"
              /\ UNCHANGED <<hc, failing, done, nqueues, nthreads, freed,
                             joined, queues, wVars, taskVars, histVars,
                             gotUpTo, crashed, unitVars, instVars, lockVars>>

TP_WorkerLoop(w) == TP_WCheck(w) \/ TP_try_pop(w)

TPNext ==
    \/ TP_CtorSpawn
    \/ TP_CtorSpawnFails
    \/ CtorReturn
    \/ TP_MainSubmit
    \/ TP_DtorBody
    \/ TP_DestroyThreads
    \/ \E w \in Workers :
          TP_WorkerLoop(w) \/ TP_TaskSubmit(w) \/ TaskReturns(w)

TPSpec == Init /\ [][TPNext]_vars

TPFairSpec ==
    /\ TPSpec
    /\ \A w \in Workers : WF_vars(TP_WorkerLoop(w)) /\ WF_vars(TaskReturns(w))
    /\ WF_vars(TP_DestroyThreads)

----------------------------------------------------------------------------
\* larva::thread_pool with a local queue per worker (the later version of
\* thread_pool.hh): _local_work_queue is a thread_local
\* std::unique_ptr<std::queue<f_wrapper>>, created by each worker for
\* itself and touched by no other thread.  queues[w] is worker w's queue.

\* _worker_threads.push_back(std::thread{&thread_pool::worker_thread, this})
LQ_CtorSpawn ==
    /\ ~crashed /\ mpc = "ctor"
    /\ nthreads < hc
    /\ nthreads' = nthreads + 1
    /\ wpc' = [wpc EXCEPT ![nthreads] = "start"]
    /\ UNCHANGED <<hc, mpc, failing, done, nqueues, freed, joined, qVars,
                   scan, cur, local_work_queue, taskVars, histVars,
                   futVars, gotUpTo, crashed, unitVars, instVars, lockVars>>

\* worker_thread: _local_work_queue.reset(new local_queue_type)
LQ_WStart(w) ==
    /\ ~crashed /\ wpc[w] = "start"
    /\ local_work_queue' = [local_work_queue EXCEPT ![w] = w]
    /\ wpc' = [wpc EXCEPT ![w] = "loop"]
    /\ UNCHANGED <<poolVars, qVars, scan, cur, taskVars, histVars,
                   futVars, gotUpTo, crashed, unitVars, instVars, lockVars>>

\* a submit whose local push inserts at the front of the worker's queue
LQ_submit_lifo(who, lq) ==
    LET t == nsub + 1 IN
    /\ nsub < MaxLocalTasks
    /\ nsub' = t
    /\ submitter' = [submitter EXCEPT ![t] = who]
    /\ fstate' = [fstate EXCEPT ![t] = "pending"]
    /\ IF lq # NULL
         THEN /\ queues' = [queues EXCEPT ![lq] = push_lifo(@, t)]
              /\ placed' = [placed EXCEPT ![t] = "local"]
              /\ UNCHANGED work_queue
         ELSE /\ work_queue' = push(work_queue, t)
              /\ placed' = [placed EXCEPT ![t] = "global"]
              /\ UNCHANGED queues
    /\ UNCHANGED <<fvalue, writes>>

\* submit: _local_work_queue->push (std::queue: at the back) when the
\* pointer is set, _work_queue.push otherwise
LQ_submit(who, lq) ==
    LET t == nsub + 1 IN
    /\ nsub < MaxLocalTasks
    /\ nsub' = t
    /\ submitter' = [submitter EXCEPT ![t] = who]
    /\ fstate' = [fstate EXCEPT ![t] = "pending"]
    /\ IF lq # NULL
         THEN /\ queues' = [queues EXCEPT ![lq] = push(@, t)]
              /\ placed' = [placed EXCEPT ![t] = "local"]
              /\ UNCHANGED work_queue
         ELSE /\ work_queue' = push(work_queue, t)
              /\ placed' = [placed EXCEPT ![t] = "global"]
              /\ UNCHANGED queues
    /\ UNCHANGED <<fvalue, writes>>

LQ_MainSubmit ==
    /\ ~crashed /\ mpc = "alive"
    /\ LQ_submit(Main, NULL)
    /\ UNCHANGED <<poolVars, wVars, histVars, gotUpTo, crashed, unitVars, instVars, lockVars>>

LQ_TaskSubmit(w) ==
    /\ ~crashed /\ wpc[w] = "running"
    /\ LQ_submit(w, local_work_queue[w])
    /\ UNCHANGED <<poolVars, wVars, histVars, gotUpTo, crashed, unitVars, instVars, lockVars>>

\* worker_thread: while (!_done); when the thread ends its thread_local
\* queue is destroyed with the tasks left in it
LQ_WCheck(w) ==
    /\ ~crashed /\ wpc[w] = "loop"
    /\ IF done
         THEN /\ wpc' = [wpc EXCEPT ![w] = "exited"]
              /\ Abandon(Range(queues[w]))
              /\ queues' = [queues EXCEPT ![w] = <<>>]
              /\ UNCHANGED work_queue
         ELSE /\ wpc' = [wpc EXCEPT ![w] = "local"]
              /\ UNCHANGED <<qVars, futVars>>
    /\ UNCHANGED <<poolVars, scan, cur, local_work_queue, taskVars,
                   histVars, gotUpTo, crashed, unitVars, instVars, lockVars>>

\* run_pending_task: if (_local_work_queue && !_local_work_queue->empty())
\*   { task = std::move(front()); pop(); task(); } else try _work_queue
LQ_run_local(w) ==
    LET lq == local_work_queue[w] IN
    /\ ~crashed /\ wpc[w] = "local"
    /\ \/ /\ IF lq = NULL THEN TRUE ELSE queues[lq] = <<>>
          /\ wpc' = [wpc EXCEPT ![w] = "global"]
          /\ UNCHANGED <<poolVars, qVars, scan, cur, local_work_queue,
                         taskVars, histVars, futVars, gotUpTo, crashed,
                         unitVars, instVars, lockVars>>
       \/ /\ lq # NULL /\ queues[lq] # <<>>
          /\ Take(w, front(queues[lq]), "local")
          /\ queues' = [queues EXCEPT ![lq] = pop_front(@)]
          /\ UNCHANGED <<poolVars, work_queue, local_work_queue,
                         taskVars, futVars, gotUpTo, crashed, unitVars, instVars, lockVars>>
       \/ /\ lq # NULL /\ queues[lq] # <<>>
          /\ Crash

LQ_WorkerLoop(w) ==
    LQ_WStart(w) \/ LQ_WCheck(w) \/ LQ_run_local(w) \/ TP_try_pop(w)

LQNext ==
    \/ LQ_CtorSpawn
    \/ TP_CtorSpawnFails
    \/ CtorReturn
    \/ LQ_MainSubmit
    \/ TP_DtorBody
    \/ TP_DestroyThreads
    \/ \E w \in Workers :
          LQ_WorkerLoop(w) \/ LQ_TaskSubmit(w) \/ TaskReturns(w)

LQInit == InitOver(LQTaskIds) /\ OnePool

LQSpec == LQInit /\ [][LQNext]_vars

----------------------------------------------------------------------------
\* The two queue classes used on their own: one stealing_queue (sq) and one
\* threadsafe_queue (tq), called by the threads 0 .. MaxThreads-1 in any
\* order.  Every member function locks the queue's mutex on entry and
\* holds it to its return, so a call is one step.  Items are numbered in
\* the order in which they are pushed into their queue.  The stealing_queue
\* holds f_wrapper objects (its data_type), assigned with
\* f_wrapper::operator=; the threadsafe_queue is the template with an
\* element type whose assignment is well defined.

poolAll == <<poolVars, qVars, wVars, taskVars, histVars, futVars, gotUpTo,
             crashed, lockVars, instVars>>

Returned(th, o, r) == [th |-> th, op |-> o, ret |-> r]

condVars == <<ppc, npop, waited>>

\* stealing_queue::push
stealing_queue_push(th) ==
    /\ ~crashed /\ nsq < MaxItems
    /\ nsq' = nsq + 1
    /\ sq' = push_front(sq, nsq + 1)
    /\ call' = Returned(th, "push", "void")
    /\ UNCHANGED <<tq, ntq, taken, res, poolAll, condVars>>

\* stealing_queue::try_pop(res)
stealing_queue_try_pop(th) ==
    /\ ~crashed
    /\ \/ /\ IF sq = <<>>
               THEN /\ call' = Returned(th, "try_pop", "false")
                    /\ UNCHANGED <<sq, res>>
               ELSE /\ res' = [res EXCEPT ![th] = front(sq)]
                    /\ sq' = pop_front(sq)
                    /\ call' = Returned(th, "try_pop", "true")
          /\ UNCHANGED <<tq, nsq, ntq, taken, poolAll, condVars>>
       \/ /\ sq # <<>>
          /\ Crash

\* stealing_queue::try_steal(res)
stealing_queue_try_steal(th) ==
    /\ ~crashed
    /\ \/ /\ IF sq = <<>>
               THEN /\ call' = Returned(th, "try_steal", "false")
                    /\ UNCHANGED <<sq, res>>
               ELSE /\ res' = [res EXCEPT ![th] = back(sq)]
                    /\ sq' = pop_back(sq)
                    /\ call' = Returned(th, "try_steal", "true")
          /\ UNCHANGED <<tq, nsq, ntq, taken, poolAll, condVars>>
       \/ /\ sq # <<>>
          /\ Crash

\* threadsafe_queue::push
threadsafe_queue_push(th) ==
    /\ ~crashed /\ ntq < MaxItems
    /\ ntq' = ntq + 1
    /\ tq' = push(tq, ntq + 1)
    /\ call' = Returned(th, "tq_push", "void")
    /\ UNCHANGED <<sq, nsq, taken, res, poolAll, condVars>>

\* threadsafe_queue::try_pop(item)
threadsafe_queue_try_pop(th) ==
    /\ ~crashed
    /\ IF tq = <<>>
         THEN /\ call' = Returned(th, "tq_try_pop", "false")
              /\ UNCHANGED <<tq, res, taken>>
         ELSE /\ res' = [res EXCEPT ![th] = front(tq)]
              /\ taken' = Append(taken, front(tq))
              /\ tq' = pop_front(tq)
              /\ call' = Returned(th, "tq_try_pop", "true")
    /\ UNCHANGED <<sq, nsq, ntq, poolAll, condVars>>

\* threadsafe_queue::pop: _cond.wait(lock, !_queue.empty()) keeps the
\* caller waiting while the queue is empty; then the front item is
\* returned
threadsafe_queue_pop(th) ==
    /\ ~crashed /\ tq # <<>>
    /\ res' = [res EXCEPT ![th] = front(tq)]
    /\ taken' = Append(taken, front(tq))
    /\ tq' = pop_front(tq)
    /\ call' = Returned(th, "tq_pop", "item")
    /\ UNCHANGED <<sq, nsq, ntq, poolAll, condVars>>

QueueInit == Init /\ hc = 0

QueueNext ==
    \E th \in Workers :
        \/ stealing_queue_push(th)
        \/ stealing_queue_try_pop(th)
        \/ stealing_queue_try_steal(th)
        \/ threadsafe_queue_push(th)
        \/ threadsafe_queue_try_pop(th)
        \/ threadsafe_queue_pop(th)

QueueSpec == QueueInit /\ [][QueueNext]_vars

----------------------------------------------------------------------------
\* threadsafe_queue::pop with its condition variable.  push and pop hold
\* _mutex for their whole body, and _cond.wait releases it and blocks in one
\* atomic step, so each stretch of code run under the mutex is one step:
\* pop from the lock to the first wait, pop from a wake-up to the next wait
\* or to its return, push as a whole.  ppc[th] is "idle" outside pop,
\* "waiting" while th is blocked in _cond.wait, "woken" when th has been
\* unblocked and has not yet got the mutex back.

\* a push that notifies nobody
notify_lost == UNCHANGED ppc

\* _cond.notify_one(): one of the threads blocked in wait, if there is one,
\* is unblocked
notify_one ==
    IF \E th \in Workers : ppc[th] = "waiting"
      THEN \E th \in Workers :
              /\ ppc[th] = "waiting"
              /\ ppc' = [ppc EXCEPT ![th] = "woken"]
      ELSE UNCHANGED ppc

\* push: _queue.push(std::move(item)); _cond.notify_one()
CV_push(th) ==
    /\ ~crashed /\ ntq < MaxItems /\ ppc[th] = "idle"
    /\ ntq' = ntq + 1
    /\ tq' = push(tq, ntq + 1)
    /\ notify_one
    /\ call' = Returned(th, "tq_push", "void")
    /\ UNCHANGED <<sq, nsq, taken, res, npop, waited, poolAll>>

\* pop, with _mutex held: _cond.wait(lock, pred) tests !_queue.empty() and
\* blocks while it is false; otherwise
\*   T item = _queue.front(); _queue.pop(); return item
wait_or_take(th) ==
    IF tq = <<>>
      THEN /\ ppc' = [ppc EXCEPT ![th] = "waiting"]
           /\ UNCHANGED <<tq, taken, res, call>>
      ELSE /\ res' = [res EXCEPT ![th] = front(tq)]
           /\ taken' = Append(taken, front(tq))
           /\ tq' = pop_front(tq)
           /\ ppc' = [ppc EXCEPT ![th] = "idle"]
           /\ call' = Returned(th, "tq_pop", "item")

\* pop is called: std::unique_lock lock(_mutex); _cond.wait(lock, pred)
CV_pop_enter(th) ==
    /\ ~crashed /\ npop < MaxItems /\ ppc[th] = "idle"
    /\ npop' = npop + 1
    /\ wait_or_take(th)
    /\ waited' = [waited EXCEPT ![th] = (tq = <<>>)]
    /\ UNCHANGED <<sq, nsq, ntq, poolAll>>

\* std::condition_variable::wait may return without a notification
CV_spurious_wakeup(th) ==
    /\ ~crashed /\ ppc[th] = "waiting"
    /\ ppc' = [ppc EXCEPT ![th] = "woken"]
    /\ UNCHANGED <<sq, tq, nsq, ntq, taken, res, call, npop, waited,
                   poolAll>>

\* the unblocked thread has locked _mutex again: wait's loop tests pred
CV_pop_resume(th) ==
    /\ ~crashed /\ ppc[th] = "woken"
    /\ wait_or_take(th)
    /\ UNCHANGED <<sq, nsq, ntq, npop, waited, poolAll>>

CondNext ==
    \E th \in Workers :
        \/ CV_push(th)
        \/ CV_pop_enter(th)
        \/ CV_spurious_wakeup(th)
        \/ CV_pop_resume(th)

CondSpec == QueueInit /\ [][CondNext]_vars

\* Scheduling: a thread that has been unblocked gets the mutex back (each
\* critical section is finite) and runs on.
CondFairSpec ==
    CondSpec /\ \A th \in Workers : WF_vars(CV_pop_resume(th))

----------------------------------------------------------------------------
\* The stealing pool with the queues' mutexes.  A queue operation is two
\* steps: the lock is taken and the body runs under it (no other thread can
\* see the queue in between), then the lock_guard / unique_lock is
\* destroyed and the operation returns.  task() is a third step.
\* opret[th] is "none" outside a queue operation, the value about to be
\* returned while th is inside one, and "call" once a pop has returned true
\* and task() has not been called yet.

\* the mutexes thread th holds
HeldBy(th) == {m \in Mutexes : mutex[m] = th}

\* std::lock_guard / std::unique_lock constructor: _mutex.lock()
lock(th, m) ==
    /\ mutex[m] = NoThread
    /\ mutex' = [mutex EXCEPT ![m] = th]
    /\ guard' = [guard EXCEPT ![th] = m]

\* submit(f) on thread who: the push has taken the queue's lock and has
\* inserted the task
LK_submit(who, lq) ==
    /\ opret[who] = "none"
    /\ IF lq # NULL /\ freed
         THEN UNCHANGED lockVars
         ELSE /\ lock(who, IF lq = NULL THEN Global ELSE lq)
              /\ opret' = [opret EXCEPT ![who] = "void"]
    /\ submit(who, lq)

LK_MainSubmit ==
    /\ ~crashed /\ mpc = "alive"
    /\ LK_submit(Main, NULL)
    /\ UNCHANGED <<poolVars, wVars, histVars, gotUpTo, crashed, unitVars, instVars>>

LK_TaskSubmit(w) ==
    /\ ~crashed /\ wpc[w] = "running"
    /\ \/ /\ LK_submit(w, local_work_queue[w])
          /\ UNCHANGED <<poolVars, wVars, histVars, gotUpTo, crashed,
                         unitVars, instVars>>
       \/ /\ opret[w] = "none"
          /\ nsub < MaxTasks /\ local_work_queue[w] # NULL /\ freed
          /\ Crash

\* a try_pop / try_steal has locked queue m and found element t:
\* res = std::move(t), the element is removed, true is about to be returned
LK_found(w, m, t) ==
    /\ lock(w, m)
    /\ cur' = [cur EXCEPT ![w] = t]
    /\ opret' = [opret EXCEPT ![w] = "true"]

\* a try_pop / try_steal has locked queue m and found it empty
LK_empty(w, m) ==
    /\ lock(w, m)
    /\ opret' = [opret EXCEPT ![w] = "false"]

\* pop_task_from_local_queue:
\*   _local_work_queue && _local_work_queue->try_pop(task)
LK_pop_task_from_local_queue(w) ==
    LET lq == local_work_queue[w] IN
    /\ ~crashed /\ wpc[w] = "local" /\ opret[w] = "none"
    /\ \/ /\ lq = NULL \/ freed
          /\ wpc' = [wpc EXCEPT ![w] = "global"]
          /\ UNCHANGED <<poolVars, qVars, scan, cur, local_work_queue,
                         taskVars, histVars, futVars, gotUpTo, crashed,
                         unitVars, instVars, lockVars>>
       \/ /\ lq # NULL /\ ~freed /\ queues[lq] = <<>>
          /\ LK_empty(w, lq)
          /\ UNCHANGED <<poolVars, qVars, wVars, taskVars, histVars,
                         futVars, gotUpTo, crashed, unitVars, instVars>>
       \/ /\ lq # NULL /\ ~freed /\ queues[lq] # <<>>
          /\ LK_found(w, lq, front(queues[lq]))
          /\ queues' = [queues EXCEPT ![lq] = pop_front(@)]
          /\ UNCHANGED <<poolVars, work_queue, wpc, scan, local_work_queue,
                         taskVars, histVars, futVars, gotUpTo, crashed,
                         unitVars, instVars>>
       \/ /\ lq # NULL /\ (freed \/ (queues[lq] # <<>> /\ mutex[lq] = NoThread))
          /\ Crash

\* pop_task_from_pool_queue: _work_queue.try_pop(task)
LK_pop_task_from_pool_queue(w) ==
    /\ ~crashed /\ wpc[w] = "global" /\ opret[w] = "none"
    /\ \/ /\ work_queue = <<>>
          /\ LK_empty(w, Global)
          /\ UNCHANGED <<poolVars, qVars, wVars, taskVars, histVars,
                         futVars, gotUpTo, crashed, unitVars, instVars>>
       \/ /\ work_queue # <<>>
          /\ LK_found(w, Global, front(work_queue))
          /\ work_queue' = pop_front(work_queue)
          /\ UNCHANGED <<poolVars, queues, wpc, scan, local_work_queue,
                         taskVars, histVars, futVars, gotUpTo, crashed,
                         unitVars, instVars>>
       \/ /\ work_queue # <<>> /\ mutex[Global] = NoThread
          /\ Crash

\* pop_task_from_other_thread_queue, one iteration of its loop:
\*   _queues[(_index + i + 1) % _queues.size()]->try_steal(task)
LK_pop_task_from_other_thread_queue(w) ==
    LET other == index_of_other(w, scan[w], nqueues) IN
    /\ ~crashed /\ wpc[w] = "steal" /\ opret[w] = "none"
    /\ \/ /\ freed
          /\ ProbeFailed(w)
          /\ UNCHANGED <<poolVars, qVars, cur, local_work_queue, taskVars,
                         histVars, futVars, gotUpTo, crashed, unitVars, instVars,
                         lockVars>>
       \/ /\ ~freed /\ queues[other] = <<>>
          /\ LK_empty(w, other)
          /\ UNCHANGED <<poolVars, qVars, wVars, taskVars, histVars,
                         futVars, gotUpTo, crashed, unitVars, instVars>>
       \/ /\ ~freed /\ queues[other] # <<>>
          /\ LK_found(w, other, back(queues[other]))
          /\ queues' = [queues EXCEPT ![other] = pop_back(@)]
          /\ UNCHANGED <<poolVars, work_queue, wpc, scan, local_work_queue,
                         taskVars, histVars, futVars, gotUpTo, crashed,
                         unitVars, instVars>>
       \/ /\ freed \/ Appending
                \/ (queues[other] # <<>> /\ mutex[other] = NoThread)
          /\ Crash

\* the lock is never released
LK_unlock_leaks(th) ==
    /\ ~crashed /\ opret[th] \in {"void", "true", "false"}
    /\ UNCHANGED mutex
    /\ guard' = [guard EXCEPT ![th] = NULL]
    /\ IF opret[th] = "void"
         THEN /\ opret' = [opret EXCEPT ![th] = "none"]
              /\ UNCHANGED <<wpc, scan>>
         ELSE IF opret[th] = "true"
         THEN /\ opret' = [opret EXCEPT ![th] = "call"]
              /\ UNCHANGED <<wpc, scan>>
         ELSE /\ opret' = [opret EXCEPT ![th] = "none"]
              /\ IF wpc[th] = "steal"
                   THEN ProbeFailed(th)
                   ELSE /\ wpc' = [wpc EXCEPT ![th] =
                                     IF @ = "local" THEN "global"
                                                    ELSE "steal"]
                        /\ UNCHANGED scan
    /\ UNCHANGED <<poolVars, qVars, cur, local_work_queue, taskVars,
                   histVars, futVars, gotUpTo, crashed, unitVars, instVars>>

\* the lock stays held when the operation returns true, as if task() were
\* called inside try_pop
LK_unlock_after_task(th) ==
    /\ ~crashed /\ opret[th] \in {"void", "true", "false"}
    /\ mutex' = IF opret[th] = "true" THEN mutex
                ELSE [mutex EXCEPT ![guard[th]] = NoThread]
    /\ guard' = [guard EXCEPT ![th] = NULL]
    /\ IF opret[th] = "void"
         THEN /\ opret' = [opret EXCEPT ![th] = "none"]
              /\ UNCHANGED <<wpc, scan>>
         ELSE IF opret[th] = "true"
         THEN /\ opret' = [opret EXCEPT ![th] = "call"]
              /\ UNCHANGED <<wpc, scan>>
         ELSE /\ opret' = [opret EXCEPT ![th] = "none"]
              /\ IF wpc[th] = "steal"
                   THEN ProbeFailed(th)
                   ELSE /\ wpc' = [wpc EXCEPT ![th] =
                                     IF @ = "local" THEN "global"
                                                    ELSE "steal"]
                        /\ UNCHANGED scan
    /\ UNCHANGED <<poolVars, qVars, cur, local_work_queue, taskVars,
                   histVars, futVars, gotUpTo, crashed, unitVars, instVars>>

\* the queue operation returns: ~lock_guard / ~unique_lock unlocks the
\* mutex.  After push the caller goes on; after a pop that returned true
\* run_pending_task goes to task(); after one that returned false it goes
\* to the next source, or to the next probe of the steal scan.  A local
\* queue may have been destroyed together with its mutex in the meantime.
LK_unlock(th) ==
    \/ /\ ~crashed /\ opret[th] \in {"void", "true", "false"}
       /\ mutex' = [mutex EXCEPT ![guard[th]] = NoThread]
       /\ guard' = [guard EXCEPT ![th] = NULL]
       /\ IF opret[th] = "void"
            THEN /\ opret' = [opret EXCEPT ![th] = "none"]
                 /\ UNCHANGED <<wpc, scan>>
            ELSE IF opret[th] = "true"
            THEN /\ opret' = [opret EXCEPT ![th] = "call"]
                 /\ UNCHANGED <<wpc, scan>>
            ELSE /\ opret' = [opret EXCEPT ![th] = "none"]
                 /\ IF wpc[th] = "steal"
                      THEN ProbeFailed(th)
                      ELSE /\ wpc' = [wpc EXCEPT ![th] =
                                        IF @ = "local" THEN "global"
                                                       ELSE "steal"]
                           /\ UNCHANGED scan
       /\ UNCHANGED <<poolVars, qVars, cur, local_work_queue, taskVars,
                      histVars, futVars, gotUpTo, crashed, unitVars, instVars>>
    \/ /\ ~crashed /\ opret[th] \in {"void", "true", "false"}
       /\ freed /\ guard[th] # Global
       /\ Crash

\* run_pending_task: task()
LK_task_call(w) ==
    /\ ~crashed /\ opret[w] = "call"
    /\ Take(w, cur[w], wpc[w])
    /\ opret' = [opret EXCEPT ![w] = "none"]
    /\ UNCHANGED <<poolVars, qVars, local_work_queue, taskVars, futVars,
                   gotUpTo, crashed, unitVars, instVars, mutex, guard>>

\* task() returns; the task is not inside submit.  What the callable does is
\* of no concern to the locks: it returns a value.
LK_TaskReturns(w) ==
    /\ opret[w] = "none"
    /\ TaskReturns(w)
    /\ fstate'[cur[w]] = "value"

\* the owning thread is not inside submit when it runs the destructor
LK_DtorBody == opret[Main] = "none" /\ DtorBody

LK_WorkerStep(w) ==
    \/ WStart(w)
    \/ WCheck(w)
    \/ LK_pop_task_from_local_queue(w)
    \/ LK_pop_task_from_pool_queue(w)
    \/ LK_pop_task_from_other_thread_queue(w)
    \/ LK_task_call(w)
    \/ LK_TaskSubmit(w)
    \/ LK_TaskReturns(w)

LockNext ==
    \/ CtorPushQueue
    \/ CtorSpawn
    \/ CtorSpawnFails
    \/ CtorReturn
    \/ LK_MainSubmit
    \/ LK_DtorBody
    \/ DestroyQueues
    \/ Join
    \/ DestroyRest
    \/ \E th \in Threads : LK_unlock(th)
    \/ \E w \in Workers : LK_WorkerStep(w)

LockSpec == Init /\ [][LockNext]_vars

----------------------------------------------------------------------------
\* Where the tasks are

Queued == Range(work_queue) \cup UNION {Range(queues[i]) : i \in Workers}
Held == {cur[w] : w \in Workers} \ {0}
Occurrences(t) ==
    Cardinality({k \in 1 .. Len(work_queue) : work_queue[k] = t})
    + Cardinality({<<i, k>> \in Workers \X (1 .. MaxTasks) :
                      k <= Len(queues[i]) /\ queues[i][k] = t})
    + Cardinality({w \in Workers : cur[w] = t})

----------------------------------------------------------------------------
\* C1: every task is invoked at most once: a task that a try_pop or a
\* try_steal has handed to a worker is in no queue any more and is held by
\* no second worker, so no later try_pop or try_steal can return it.
C1_AtMostOnce ==
    \A t \in TaskIds :
        /\ execs[t] <= 1
        /\ Occurrences(t) <= 1
        /\ execs[t] = 1 => t \notin Queued

\* a task taken from the global queue and a task stolen from a peer's local
\* queue have both run
C1_Witness ==
    \E t, u \in TaskIds :
        /\ via[t] = "global" /\ via[u] = "steal"
        /\ execs[t] = 1 /\ execs[u] = 1

\* C2: in a pool that has a worker and is never destroyed, with fair
\* scheduling and terminating tasks, every submitted task (by the owning
\* thread or by a running task) is eventually executed, and exactly once.
C2_EventuallyExactlyOnce ==
    /\ \A t \in TaskIds :
          (fstate[t] = "pending") ~>
              (execs[t] = 1 /\ fstate[t] \in {"value", "exception"})
    /\ [](\A t \in TaskIds : execs[t] <= 1)

\* C3: the value in the shared state of a handle is the value computed by
\* the task created with that handle (i + 1 for the task that captured i),
\* whatever path the task took; it is there only if that task has run.
C3_ValueOfPairedTask ==
    \A t \in TaskIds :
        /\ fstate[t] = "value" => fvalue[t] = t + 1
        /\ fstate[t] \in {"value", "exception"} => execs[t] = 1

\* get() has returned the values of all handles of the owning thread, and a
\* stolen task has delivered its value too
C3_Witness ==
    /\ nsub = MaxTasks
    /\ \A t \in TaskIds : fstate[t] = "value"
    /\ \E t \in TaskIds : submitter[t] = Main /\ gotUpTo >= t
    /\ \A t \in TaskIds : submitter[t] = Main => gotUpTo >= t
    /\ \E t \in TaskIds : via[t] = "steal"

\* C4: the shared state of a task is written at most once (value, exception
\* or broken promise), and get() has returned only on handles whose shared
\* state has been written.
C4_WriteOnceBeforeGet ==
    \A t \in TaskIds :
        /\ writes[t] <= 1
        /\ (submitter[t] = Main /\ t <= gotUpTo) =>
               (writes[t] = 1 /\ fstate[t] \in {"value", "exception", "broken"})
        /\ fstate[t] \in {"value", "exception", "broken"} => writes[t] = 1

\* get() has returned on a handle whose task ran and on a handle whose task
\* was discarded by the teardown
C4_Witness ==
    \E t, u \in TaskIds :
        /\ t <= gotUpTo /\ u <= gotUpTo
        /\ submitter[t] = Main /\ submitter[u] = Main
        /\ fstate[t] = "value" /\ fstate[u] = "broken"

\* C5: when the callable throws, the handle holds the exception, the worker
\* is back at the top of its loop and no worker has gone; a worker leaves
\* its loop only at the loop test, with the shutdown flag set.
C5_ThrowKeepsWorker ==
    [][\A w \in Workers :
          /\ (wpc[w] = "running" /\ wpc'[w] # "running") =>
                /\ fstate'[cur[w]] \in {"value", "exception"}
                /\ wpc'[w] = "loop"
                /\ ~crashed'
                /\ \A v \in Workers :
                      (wpc'[v] = "exited") = (wpc[v] = "exited")
          /\ (wpc[w] # "exited" /\ wpc'[w] = "exited") =>
                (wpc[w] = "loop" /\ done)]_vars

\* the only worker ran a task that threw and then a later task
C5_Witness ==
    /\ hc = 1 /\ ~done /\ ~crashed
    /\ wpc[0] \notin {"exited", "unstarted", "start"}
    /\ \E t, u \in TaskIds :
          t < u /\ fstate[t] = "exception" /\ fstate[u] = "value"

\* C6 (in its weakest reading: the handle resolves at all): once the
\* destructor has set the flag, the handle of every task still in a queue
\* eventually leaves the pending state.
C6_QueuedHandlesResolve ==
    \A t \in TaskIds :
        []((done /\ ~failing /\ t \in Queued) => <>(fstate[t] # "pending"))

\* C7: the destructor (or the unwinding constructor) sets the flag first
\* and returns only when every started worker has exited and been joined.
C7_DestroyedAfterWorkers ==
    /\ mpc \notin {"ctor", "alive"} => done
    /\ mpc \in {"destroyed", "ctor_failed"} =>
          /\ joined = nthreads
          /\ \A w \in Workers : w < nthreads => wpc[w] = "exited"
    /\ \A w \in Workers : w < joined => wpc[w] = "exited"

\* a pool whose workers have run a task has been destroyed
C7_Witness ==
    /\ mpc = "destroyed" /\ nthreads = MaxThreads
    /\ \E t \in TaskIds : execs[t] = 1

\* C8: when a spawn fails the flag is set, the started workers terminate
\* and are joined, and then the failure reaches the caller.
C8_FailedCtorUnwinds ==
    /\ failing ~> (mpc = "ctor_failed")
    /\ [](failing => done)
    /\ [](mpc = "ctor_failed" =>
            /\ joined = nthreads
            /\ \A w \in Workers : w < nthreads => wpc[w] = "exited")

\* C9: a submit by the owning thread appends the task to the global queue
\* and changes no local queue; a submit by worker i puts the task at the
\* front of local queue i and changes nothing else.
C9_SubmitRouting ==
    [][nsub' = nsub + 1 =>
          LET t == nsub' IN
          IF submitter'[t] = Main
            THEN /\ work_queue' = Append(work_queue, t)
                 /\ queues' = queues
            ELSE /\ queues' = [queues EXCEPT ![submitter'[t]] = <<t>> \o @]
                 /\ work_queue' = work_queue]_vars

\* C10 (its safety part): a task submitted by a task running on worker i
\* is put in local queue i and is never in the global queue.
C10_InnerSubmitStaysLocal ==
    \A t \in TaskIds :
        submitter[t] \in Workers =>
            /\ placed[t] = "local"
            /\ t \notin Range(work_queue)
            /\ via[t] \in {"none", "local", "steal"}

\* C11: with one worker, the tasks submitted by the owning thread begin
\* execution in the order of their submission: when a task has begun,
\* every task the owning thread submitted before it has begun too.
C11_SingleWorkerFifo ==
    hc = 1 =>
        \A t, u \in TaskIds :
            (t < u /\ submitter[t] = Main /\ submitter[u] = Main
                   /\ via[u] # "none") => via[t] # "none"

\* the single worker runs the first task while all later ones, submitted by
\* the owning thread, wait in the global queue
C11_Witness ==
    /\ hc = 1 /\ cur[0] = 1
    /\ \A t \in TaskIds : submitter[t] = Main
    /\ Len(work_queue) = MaxTasks - 1

C13_StealWithBothEmpty ==
    \A w \in Workers :
        (wpc[w] = "steal" /\ index_of_other(w, scan[w], nqueues) # w) =>
            (queues[w] = <<>> /\ work_queue = <<>>)

\* C13 amended: whenever a worker is about to call try_steal, its own
\* local queue is empty, and it enters the steal scan only from a try_pop
\* on the global queue that found it empty, itself made only after the
\* worker's poll of its own queue found that empty.
C13_StealAfterBothFoundEmpty ==
    /\ [](\A w \in Workers : wpc[w] = "steal" => queues[w] = <<>>)
    /\ [][\A w \in Workers :
            /\ (wpc[w] # "steal" /\ wpc'[w] = "steal") =>
                  (wpc[w] = "global" /\ work_queue = <<>>
                                     /\ work_queue' = <<>>)
            /\ (wpc[w] # "global" /\ wpc'[w] = "global") =>
                  (wpc[w] = "local" /\ queues[w] = <<>>)]_vars

\* a worker is about to steal from a peer whose queue holds a task
C13_Witness ==
    \E w \in Workers :
        /\ wpc[w] = "steal"
        /\ index_of_other(w, scan[w], nqueues) # w
        /\ ~freed /\ queues[index_of_other(w, scan[w], nqueues)] # <<>>

\* C14: in a loop iteration the worker polls its own queue first.  If the
\* queue holds a task when it is polled, the worker runs the task at its
\* front and the global queue is left alone; the worker turns to the
\* global queue only from a poll that found its own queue empty, and a
\* task leaves the global queue only in the hands of a worker that did so.
C14_LocalBeforeGlobal ==
    [][\A w \in Workers :
          /\ (wpc[w] = "local" /\ wpc'[w] # "local") =>
                IF queues[w] # <<>>
                  THEN /\ wpc'[w] = "running"
                       /\ cur'[w] = Head(queues[w])
                       /\ via'[cur'[w]] = "local"
                       /\ work_queue' = work_queue
                  ELSE wpc'[w] = "global"
          /\ (wpc[w] # "global" /\ wpc'[w] = "global") =>
                (wpc[w] = "local" /\ queues[w] = <<>>)
          /\ (wpc[w] # "running" /\ wpc'[w] = "running"
                                 /\ via'[cur'[w]] = "global") =>
                wpc[w] = "global"]_vars

\* a worker runs a task it took from its own queue
C14_Witness ==
    \E w \in Workers :
        /\ wpc[w] = "running" /\ cur[w] # 0
        /\ via[cur[w]] = "local"

\* C15: the i-th probe of a scan by worker k (i = 0, 1, ...) goes to
\* queue (k + i + 1) mod n, n the size of the table.  A probe that finds
\* a task takes the one at the back of that queue, changes no other queue
\* and ends the scan; a probe that fails found its queue empty, changes no
\* queue and is followed by the next probe, and the scan reports failure
\* only after the probe with i = n - 1.
C15_StealScanOrder ==
    /\ [](\A w \in Workers : wpc[w] # "steal" => scan[w] = 0)
    /\ [][\A w \in Workers :
            (wpc[w] = "steal" /\ <<wpc'[w], scan'[w]>> # <<wpc[w], scan[w]>>) =>
                LET v == (w + scan[w] + 1) % nqueues IN
                IF wpc'[w] = "running"
                  THEN /\ queues[v] # <<>>
                       /\ cur'[w] = queues[v][Len(queues[v])]
                       /\ queues' = [queues EXCEPT
                                       ![v] = SubSeq(@, 1, Len(@) - 1)]
                       /\ work_queue' = work_queue
                  ELSE /\ queues[v] = <<>>
                       /\ queues' = queues /\ work_queue' = work_queue
                       /\ IF scan[w] + 1 < nqueues
                            THEN wpc'[w] = "steal" /\ scan'[w] = scan[w] + 1
                            ELSE wpc'[w] = "loop"]_vars

\* a task has been stolen, and a worker is past the first probe of a scan
C15_Witness ==
    /\ \E t \in TaskIds : via[t] = "steal"
    /\ \E w \in Workers : wpc[w] = "steal" /\ scan[w] >= 1

\* C16: a worker never calls try_steal on its own queue.
C16_NeverProbesOwnQueue ==
    \A w \in Workers :
        wpc[w] = "steal" => index_of_other(w, scan[w], nqueues) # w

\* C17: a try_pop on a stealing_queue that returns true has moved out the
\* item pushed last among those still in the queue (items are numbered in
\* push order), and has removed that item.
C17_OwnerLifo ==
    [][(~crashed' /\ call'.op = "try_pop" /\ call'.ret = "true") =>
          LET x == res'[call'.th] IN
          /\ x \in Range(sq) /\ x \notin Range(sq')
          /\ \A y \in Range(sq) : y <= x]_vars

\* a try_pop returned the item pushed last while older items stay queued
C17_Witness ==
    /\ call.op = "try_pop" /\ call.ret = "true"
    /\ nsq >= 2 /\ res[call.th] = nsq /\ sq # <<>>

\* C18: a try_steal that returns true has moved out the item pushed
\* first among those still in the queue, and has removed it; so successive
\* steals return items in the order they were pushed.
C18_ThiefFifo ==
    [][(~crashed' /\ call'.op = "try_steal" /\ call'.ret = "true") =>
          LET x == res'[call'.th] IN
          /\ x \in Range(sq) /\ x \notin Range(sq')
          /\ \A y \in Range(sq) : x <= y]_vars

\* a try_steal returned the oldest item left, not the first one pushed,
\* while a newer item stays queued
C18_Witness ==
    /\ call.op = "try_steal" /\ call.ret = "true"
    /\ res[call.th] >= 2 /\ sq # <<>>

\* C19: the items removed from a threadsafe_queue, in the order of their
\* removal, followed by the items still in it, are the items pushed, in
\* the order of their push: nothing is removed twice, invented or
\* reordered, whichever threads call push, try_pop and pop.
C19_ThreadsafeQueueFifo ==
    taken \o tq = [i \in 1 .. ntq |-> i]

\* two items were removed, the last by pop, and an item is still queued
C19_Witness ==
    /\ Len(taken) >= 2 /\ tq # <<>>
    /\ call.op = "tq_pop"

\* C20: every call of try_pop or try_steal returns.  On an empty queue it
\* returns false, the queue stays empty and the caller's object is not
\* touched; otherwise it returns true and the queue loses exactly its
\* front (try_pop) or back (try_steal) element.
C20_TryOpsTotal ==
    [][/\ ~crashed'
       /\ call'.op \in {"try_pop", "try_steal"} =>
             IF sq = <<>>
               THEN call'.ret = "false" /\ sq' = <<>> /\ res' = res
               ELSE /\ call'.ret = "true"
                    /\ sq' = IF call'.op = "try_pop"
                                THEN Tail(sq)
                                ELSE SubSeq(sq, 1, Len(sq) - 1)
       /\ call'.op = "tq_try_pop" =>
             IF tq = <<>>
               THEN call'.ret = "false" /\ tq' = <<>> /\ res' = res
               ELSE call'.ret = "true" /\ tq' = Tail(tq)]_vars

\* C21: under fair scheduling, once _done is set every started worker
\* whose current task returns leaves its loop and its thread exits, however
\* many tasks are still queued.
C21_WorkersExitAfterDone ==
    \A w \in Workers : (done /\ wpc[w] # "unstarted") ~> (wpc[w] = "exited")

\* C22 (as stated): once _done is set no worker starts a task.
C22_NoStartAfterDone ==
    [][\A w \in Workers :
          done => ~(wpc[w] # "running" /\ wpc'[w] = "running")]_vars

\* C22 (amended): once _done is set a worker starts at most one more task
\* (run_pending_task reads no flag between the loop test and the pops), and
\* a task that is dropped with its queue has never been invoked.
C22_OneStartAfterDone ==
    /\ \A w \in Workers : late[w] <= 1
    /\ \A t \in TaskIds : fstate[t] = "broken" => execs[t] = 0

\* a worker took a task after _done was set, and another task was dropped
C22_Witness ==
    /\ \E w \in Workers : late[w] = 1
    /\ \E t \in TaskIds : fstate[t] = "broken" /\ execs[t] = 0

\* C23: no thread ever holds more than one queue mutex, and a thread that
\* holds one is inside that queue's operation, past its body and about to
\* return: it never waits for a second mutex, so the threads that wait for a
\* mutex cannot wait for one another.
C23_OneMutexPerThread ==
    \A th \in Threads :
        /\ Cardinality(HeldBy(th)) <= 1
        /\ HeldBy(th) # {} =>
              /\ opret[th] \in {"void", "true", "false"}
              /\ HeldBy(th) = {guard[th]}

\* a thief holds the mutex of another worker's queue while a second thread
\* holds another mutex
C23_Witness ==
    \E w \in Workers, m \in Workers, th \in Threads :
        /\ m # w /\ mutex[m] = w /\ wpc[w] = "steal"
        /\ th # w /\ HeldBy(th) # {}

\* C24: a worker holds no queue mutex when it calls task(), and none while
\* the task runs, except inside a push that the task itself makes through
\* submit, which unlocks before it returns to the task.
C24_NoLockWhileTaskRuns ==
    \A w \in Workers :
        /\ opret[w] = "call" => HeldBy(w) = {}
        /\ wpc[w] = "running" =>
              \/ HeldBy(w) = {}
              \/ opret[w] = "void" /\ HeldBy(w) = {guard[w]}

\* a stolen task runs, and meanwhile another thread is inside an operation
\* on the queue it was stolen from
C24_Witness ==
    \E w \in Workers, th \in Threads :
        /\ wpc[w] = "running" /\ via[cur[w]] = "steal" /\ HeldBy(w) = {}
        /\ th # w /\ HeldBy(th) \cap Workers # {}

\* C25: _done starts false; a step changes it only from false to true, and
\* that step is the constructor's catch block or the destructor's body;
\* each of them runs only while _done is still false, so _done is written
\* once; no step of a worker and no submit changes it.
C25_DoneWrittenOnce ==
    /\ done = FALSE
    /\ [][/\ done' # done =>
                /\ ~done /\ done'
                /\ CtorSpawnFails \/ DtorBody
          /\ (CtorSpawnFails \/ DtorBody) => ~done /\ done'
          /\ (MainSubmit \/ \E w \in Workers : WorkerStep(w)) =>
                done' = done]_vars

\* the flag was set by the constructor's catch block, a worker has read it
\* and left, and the unwinding is over
C25_Witness ==
    /\ done /\ failing /\ mpc = "ctor_failed"
    /\ \E w \in Workers : wpc[w] = "exited"

C27_ExactlyOnePlace ==
    mpc \in {"ctor", "alive"} =>
        \A t \in TaskIds :
            Occurrences(t) =
                IF t <= nsub /\ fstate[t] = "pending" THEN 1 ELSE 0

\* the pool is alive, a worker runs one task and another task sits in that
\* worker's local queue
C27_Witness ==
    /\ mpc = "alive"
    /\ \E w \in Workers, t, u \in TaskIds :
          /\ cur[w] = t /\ wpc[w] = "running"
          /\ local_work_queue[w] = w /\ u \in Range(queues[w])
          /\ u # t /\ mutex[w] = NoThread

\* C28: a worker's _local_work_queue is null or its own queue, and the
\* owning thread has none: what it submits goes to the global queue.  A
\* step that adds an element to local queue i is a push made by worker i
\* from the task it runs; a step that removes one from it is worker i's
\* try_pop taking the front, or some worker's try_steal taking the back.
C28_SingleOwner ==
    [][/\ \A w \in Workers : local_work_queue'[w] \in {NULL, w}
       /\ \A t \in TaskIds : submitter'[t] = Main => placed'[t] = "global"
       /\ \A i \in Workers :
             /\ Len(queues'[i]) > Len(queues[i]) =>
                   /\ wpc[i] = "running" /\ local_work_queue[i] = i
                   /\ nsub' = nsub + 1 /\ submitter'[nsub'] = i
                   /\ nsub' \in Range(queues'[i])
             /\ (Len(queues'[i]) < Len(queues[i]) /\ ~freed') =>
                   \E w \in Workers :
                      /\ wpc'[w] = "running" /\ cur'[w] \in Range(queues[i])
                      /\ \/ /\ wpc[w] = "local" /\ w = i
                            /\ cur'[w] = Head(queues[i])
                            /\ queues'[i] = Tail(queues[i])
                         \/ /\ wpc[w] = "steal"
                            /\ cur'[w] = queues[i][Len(queues[i])]
                            /\ queues'[i] =
                                  SubSeq(queues[i], 1, Len(queues[i]) - 1)]_vars

\* a task that a worker pushed into its own queue has been stolen and run
\* by another worker
C28_Witness ==
    \E t \in TaskIds, w \in Workers :
        /\ submitter[t] \in Workers /\ placed[t] = "local"
        /\ via[t] = "steal" /\ cur[w] = t /\ w # submitter[t]

\* C29: in a pool with at least two workers that is not shut down, a task
\* that sits in the local queue of a worker whose current task does not
\* return is eventually invoked (by a thief), the other workers' tasks
\* returning and the scheduling being fair.
C29_StolenFromBusyOwner ==
    \A i \in Workers, t \in TaskIds :
        (t \in Range(queues[i]) /\ wpc[i] = "running") ~>
            (execs[t] >= 1 \/ wpc[i] # "running")

\* C30: in thread_pool, when _worker_threads is destroyed (a constructor that
\* failed unwinds, or the destructor ends) every thread that was started has
\* left worker_thread and has been joined, so the step completes and the
\* exception, or the destructor's return, reaches the caller.
C30_StartedThreadsCleanedUp ==
    [][TP_DestroyThreads =>
          /\ \A w \in Workers : w < nthreads => wpc[w] = "exited"
          /\ ~crashed'
          /\ mpc' \in {"ctor_failed", "destroyed"}]_vars

\* C31: the local queues and the table _queues are destroyed only when every
\* started worker has left worker_thread, and the global queue likewise: no
\* worker is at a point from which it still reads them.
C31_QueuesOutliveWorkers ==
    /\ freed => \A w \in Workers : w < nthreads => wpc[w] = "exited"
    /\ mpc \in {"destroyed", "ctor_failed"} =>
          \A w \in Workers : w < nthreads => wpc[w] = "exited"

\* C32: a worker that is about to read _queues (its element in
\* worker_thread, its size and an element in the steal scan) does so when
\* the constructor has no push_back left to do, and the index it uses is
\* below the table's size.
C32_NoReadWhileAppending ==
    \A w \in Workers :
        /\ wpc[w] = "start" => ~Appending /\ w < nqueues
        /\ wpc[w] = "steal" =>
              ~Appending /\ index_of_other(w, scan[w], nqueues) < nqueues

\* C33: the number of tasks whose execution began with _done already set is
\* at most the number of workers: a worker begins at most one such task,
\* only a started worker begins one, and only after the flag was set.
C33_OverrunBounded ==
    /\ Cardinality({<<w, k>> \in Workers \X (1 .. 2) : k <= late[w]})
          <= nthreads
    /\ \A w \in Workers :
          late[w] > 0 => late[w] = 1 /\ w < nthreads /\ done

\* every worker of a pool with MaxThreads workers has begun one task after
\* the flag was set, and has exited
C33_Witness ==
    /\ nthreads = MaxThreads
    /\ \A w \in Workers : late[w] = 1 /\ wpc[w] = "exited"

----------------------------------------------------------------------------
\* Two stealing_thread_pool instances in one process.  _local_work_queue and
\* _index are static thread_local members: one object per thread, shared by
\* every instance of the class.  Both pools have been constructed and stay
\* alive; hc is the hardware concurrency both constructors read.  Each of
\* run_pending_task's three attempts is taken at the moment it succeeds.

\* p.submit(f) called on thread th: the test and the push go through the
\* calling thread's _local_work_queue, whichever pool set it
PQ_submit(p, th) ==
    LET t == pq_nsub + 1
        lq == tl_local_work_queue[th] IN
    /\ pq_nsub < MaxTasks
    /\ pq_nsub' = t
    /\ through' = [through EXCEPT ![t] = p]
    /\ IF lq # NoQueue
         THEN /\ pq_queues' = [pq_queues EXCEPT ![lq[1]][lq[2]] =
                                                push_front(@, t)]
              /\ UNCHANGED pq_work_queue
         ELSE /\ pq_work_queue' = [pq_work_queue EXCEPT ![p] = push(@, t)]
              /\ UNCHANGED pq_queues

PQ_frame ==
    UNCHANGED <<poolVars, qVars, wVars, taskVars, histVars, futVars, gotUpTo,
                crashed, unitVars, lockVars>>

\* p.submit(...) called by a thread that is a worker of neither pool
PQ_OutsideSubmit(p) ==
    /\ ~crashed
    /\ PQ_submit(p, Outside)
    /\ UNCHANGED <<tl_local_work_queue, tl_index, pq_pc, pq_cur, ran_by>>
    /\ PQ_frame

\* worker_thread(index) of pool p, before the loop
PQ_WStart(p, i) ==
    /\ ~crashed /\ i < hc /\ pq_pc[<<p, i>>] = "start"
    /\ tl_index' = [tl_index EXCEPT ![<<p, i>>] = i]
    /\ tl_local_work_queue' = [tl_local_work_queue EXCEPT ![<<p, i>>] = <<p, i>>]
    /\ pq_pc' = [pq_pc EXCEPT ![<<p, i>>] = "idle"]
    /\ UNCHANGED <<pq_work_queue, pq_queues, pq_cur, pq_nsub, through, ran_by>>
    /\ PQ_frame

\* a try_pop / try_steal returned true: task() is called by a worker of p
PQ_Take(p, i, t) ==
    /\ pq_cur' = [pq_cur EXCEPT ![<<p, i>>] = t]
    /\ pq_pc' = [pq_pc EXCEPT ![<<p, i>>] = "running"]
    /\ ran_by' = [ran_by EXCEPT ![t] = p]
    /\ UNCHANGED <<tl_local_work_queue, tl_index, pq_nsub, through>>
    /\ PQ_frame

\* run_pending_task of pool p: pop_task_from_local_queue succeeds
PQ_pop_task_from_local_queue(p, i) ==
    LET lq == tl_local_work_queue[<<p, i>>] IN
    /\ ~crashed /\ pq_pc[<<p, i>>] = "idle"
    /\ lq # NoQueue /\ pq_queues[lq[1]][lq[2]] # <<>>
    /\ \/ /\ PQ_Take(p, i, front(pq_queues[lq[1]][lq[2]]))
          /\ pq_queues' = [pq_queues EXCEPT ![lq[1]][lq[2]] = pop_front(@)]
          /\ UNCHANGED pq_work_queue
       \/ Crash

\* run_pending_task of pool p: the local queue is empty and
\* pop_task_from_pool_queue succeeds
PQ_pop_task_from_pool_queue(p, i) ==
    LET lq == tl_local_work_queue[<<p, i>>] IN
    /\ ~crashed /\ pq_pc[<<p, i>>] = "idle"
    /\ lq # NoQueue /\ pq_queues[lq[1]][lq[2]] = <<>>
    /\ pq_work_queue[p] # <<>>
    /\ \/ /\ PQ_Take(p, i, front(pq_work_queue[p]))
          /\ pq_work_queue' = [pq_work_queue EXCEPT ![p] = pop_front(@)]
          /\ UNCHANGED pq_queues
       \/ Crash

\* run_pending_task of pool p: the local and the shared queue are empty and
\* the probe number k of pop_task_from_other_thread_queue is the first one
\* that finds a task in this->_queues
PQ_pop_task_from_other_thread_queue(p, i) ==
    LET lq == tl_local_work_queue[<<p, i>>] IN
    /\ ~crashed /\ pq_pc[<<p, i>>] = "idle"
    /\ lq # NoQueue /\ pq_queues[lq[1]][lq[2]] = <<>>
    /\ pq_work_queue[p] = <<>>
    /\ \E k \in 0 .. hc - 1 :
          LET o == index_of_other(tl_index[<<p, i>>], k, hc) IN
          /\ pq_queues[p][o] # <<>>
          /\ \A j \in 0 .. k - 1 :
                pq_queues[p][index_of_other(tl_index[<<p, i>>], j, hc)] = <<>>
          /\ \/ /\ PQ_Take(p, i, back(pq_queues[p][o]))
                /\ pq_queues' = [pq_queues EXCEPT ![p][o] = pop_back(@)]
                /\ UNCHANGED pq_work_queue
             \/ Crash

\* the running task calls q.submit(...) on some pool q
PQ_TaskSubmit(p, i, q) ==
    /\ ~crashed /\ pq_pc[<<p, i>>] = "running"
    /\ PQ_submit(q, <<p, i>>)
    /\ UNCHANGED <<tl_local_work_queue, tl_index, pq_pc, pq_cur, ran_by>>
    /\ PQ_frame

\* task() returns; 'task' is destroyed at the end of run_pending_task
PQ_TaskReturns(p, i) ==
    /\ ~crashed /\ pq_pc[<<p, i>>] = "running"
    /\ pq_pc' = [pq_pc EXCEPT ![<<p, i>>] = "idle"]
    /\ pq_cur' = [pq_cur EXCEPT ![<<p, i>>] = 0]
    /\ UNCHANGED <<pq_work_queue, pq_queues, tl_local_work_queue, tl_index,
                   pq_nsub, through, ran_by>>
    /\ PQ_frame

PQNext ==
    \/ \E p \in Pools : PQ_OutsideSubmit(p)
    \/ \E p \in Pools, i \in Workers :
          \/ PQ_WStart(p, i)
          \/ PQ_pop_task_from_local_queue(p, i)
          \/ PQ_pop_task_from_pool_queue(p, i)
          \/ PQ_pop_task_from_other_thread_queue(p, i)
          \/ \E q \in Pools : PQ_TaskSubmit(p, i, q)
          \/ PQ_TaskReturns(p, i)

PQInit == InitOver(TaskIds) /\ TwoPools

PQSpec == PQInit /\ [][PQNext]_vars

\* C34: with two pools alive at once, a task submitted through one pool's
\* submit is only ever held by a queue of that pool and only ever invoked by a
\* worker of that pool, whichever thread called submit.
C34_PoolIsolation ==
    \A t \in TaskIds :
        through[t] # NULL =>
            /\ \A p \in Pools :
                  (\/ t \in Range(pq_work_queue[p])
                   \/ \E i \in Workers : t \in Range(pq_queues[p][i]))
                  => p = through[t]
            /\ ran_by[t] # NULL => ran_by[t] = through[t]

\* C35: once the constructor has returned, the pool has at least one worker
\* thread and exactly one local queue per worker, whatever
\* hardware_concurrency() returned (0 included).
C35_AtLeastOneWorker ==
    mpc = "alive" => nthreads >= 1 /\ nqueues = nthreads

\* C36: in the thread_pool with a local queue per worker, a task submitted
\* from inside a task running on worker w is held only by w's local queue and
\* invoked only by w, w invokes the tasks it submitted in the order of their
\* submission, and a task submitted by a thread that is no worker is held
\* only by the shared queue until a worker pops it.
C36_LocalTasksStayLocal ==
    /\ \A t \in LQTaskIds, w \in Workers :
          /\ t \in Range(queues[w]) => submitter[t] = w
          /\ submitter[t] = w =>
                /\ placed[t] = "local"
                /\ t \notin Range(work_queue)
                /\ \A v \in Workers : cur[v] = t => v = w
          /\ submitter[t] = w /\ cur[w] = t =>
                \A u \in 1 .. t - 1 : submitter[u] = w => execs[u] >= 1
    /\ \A t \in LQTaskIds :
          submitter[t] = Main =>
              /\ placed[t] = "global"
              /\ via[t] \in {"none", "global"}
              /\ \A w \in Workers : t \notin Range(queues[w])

C36_Witness ==
    \E w \in Workers, t, u \in LQTaskIds :
        /\ submitter[1] = Main /\ via[1] = "global"
        /\ u < t /\ submitter[u] = w /\ submitter[t] = w
        /\ execs[u] = 1
        /\ wpc[w] = "running" /\ cur[w] = t /\ via[t] = "local"

\* C37: a worker calls task() only on a wrapper that a successful try_pop or
\* try_steal has filled with a submitted task (cur = 0 stands for an empty
\* f_wrapper), and the queues hold submitted tasks only, never an empty
\* wrapper.
C37_OnlyFilledWrappersInvoked ==
    /\ \A w \in Workers :
          wpc[w] = "running" =>
              /\ cur[w] \in 1 .. nsub
              /\ via[cur[w]] \in {"local", "global", "steal"}
              /\ execs[cur[w]] >= 1
    /\ \A t \in TaskIds :
          execs[t] >= 1 => via[t] \in {"local", "global", "steal"}
    /\ Range(work_queue) \subseteq 1 .. nsub
    /\ \A i \in Workers : Range(queues[i]) \subseteq 1 .. nsub

C37_Witness ==
    \E w, v \in Workers :
        /\ wpc[w] = "running" /\ via[cur[w]] = "steal"
        /\ wpc[v] = "running" /\ via[cur[v]] = "global"

====
